---- MODULE Spec2Model ----
(***************************************************************************)
(* A model of the latent-variable network of geoML (src/geoml/latent.py),  *)
(* of the KL accounting of VGPNetwork (src/geoml/models.py) and of the     *)
(* trainable parameters (src/geoml/parameter.py).                          *)
(*                                                                         *)
(* The network is an arena of node objects, nodes[1..Len(nodes)], in the   *)
(* order in which their constructors ran.  An object whose constructor     *)
(* raised stays in the arena with built = FALSE: the caller never gets a   *)
(* reference to it, but the constructor may already have changed other     *)
(* objects.  Tensors are abstracted to what the properties below are       *)
(* about: whether a slot holds a tensor or None, how many values a call    *)
(* returns, which exception it raises, and which KL terms a sum contains.  *)
(* Tensor shapes and broadcasting are not modelled in the network part.    *)
(* refresh is called on any built node; the calls that read the network    *)
(* (predict, predict_directions, propagate, kl_divergence) and             *)
(* _training_elbo are made on the node built last, the network's output.   *)
(* The mixing weights of LinearCombination and ProductOfExperts are        *)
(* followed on their own, as numbers, in a third specification; so are     *)
(* nested combinators (NestedSpec) and the computations on values          *)
(* (ValueSpec), and the parameter list of a Parametric object with its    *)
(* training loops (ObjSpec).                                               *)
(***************************************************************************)
EXTENDS Integers, Sequences, FiniteSets, TLC

VARIABLES nodes, last, par, plast, mix, calc, parametric

vars == <<nodes, last, par, plast, mix, calc, parametric>>

\* Bounds of the model.
MaxNodes == 4
MaxParents == 2
MaxSize == 2
RootSize == 2

\* Python's None where a node reference is expected.
None == 0

NoErr == "none"

NodeIds(ns) == 1..Len(ns)

\* The objects a caller holds a reference to: their constructor returned.
Built(ns) == {n \in NodeIds(ns) : ns[n].built}

GPKinds == {"BasicGP", "GPWithGradient"}

ElementwiseKinds == {"Add", "Multiply", "LinearCombination", "ProductOfExperts"}

OperationKinds == ElementwiseKinds \cup {"Concatenate", "ApplyLinearTrendGP"}

FunctionalKinds ==
    {"BasicGP", "GPGradient", "Linear", "SelectInput", "Exponentiation",
     "Bias", "CopyGP", "GPWithGradient", "RadialTrend"}

----------------------------------------------------------------------------
(* Construction                                                            *)

\* _LatentVariable.__init__: the slots every node starts with.
\* cov stands for the cached cov, cov_inv, cov_smooth_inv, chol_r and alpha
\* of a GP node, which refresh sets together.
LatentVariable(k) ==
    [kind |-> k, parents |-> <<>>, size |-> 0, root |-> None,
     ip |-> FALSE, ipv |-> FALSE, cov |-> FALSE, children |-> <<>>,
     teacher |-> None, built |-> FALSE]

\* lat.children.append(self), once per entry of the parent list.
RECURSIVE AppendChildren(_, _, _)
AppendChildren(ns, ps, id) ==
    IF ps = <<>> THEN ns
    ELSE AppendChildren([ns EXCEPT ![Head(ps)].children = Append(@, id)],
                        Tail(ps), id)

RECURSIVE SumSizes(_, _)
SumSizes(ns, ps) ==
    IF ps = <<>> THEN 0 ELSE ns[Head(ps)].size + SumSizes(ns, Tail(ps))

\* all(s == sizes[0] for s in sizes)
SameSizes(ns, ps) == \A i \in 1..Len(ps) : ns[ps[i]].size = ns[ps[1]].size

\* _RootLatentVariable.__init__
RootLatentVariable(k, id) == [LatentVariable(k) EXCEPT !.root = id]

\* _FunctionalLatentVariable.__init__: registers the parent, appends itself
\* to the parent's children and takes over the parent's root.
FunctionalLatentVariable(ns, k, id, p) ==
    [ns |-> AppendChildren(ns, <<p>>, id),
     obj |-> [LatentVariable(k) EXCEPT !.parents = <<p>>, !.root = ns[p].root]]

\* _Operation.__init__: stores the parent list and appends itself to every
\* parent's children.  It does not assign root.
Operation(ns, k, id, ps) ==
    [ns |-> AppendChildren(ns, ps, id),
     obj |-> [LatentVariable(k) EXCEPT !.parents = ps]]

\* A constructor's outcome: the arena as the constructor left it, the new
\* object, and the exception raised (NoErr when it returned).
Done(ns, obj) == [ns |-> ns, obj |-> [obj EXCEPT !.built = TRUE], err |-> NoErr]

Raised(ns, obj, e) == [ns |-> ns, obj |-> obj, err |-> e]

BasicInput_init(ns, id) ==
    Done(ns, [RootLatentVariable("BasicInput", id) EXCEPT
                  !.size = RootSize, !.ipv = TRUE])

\* Concatenate.__init__ that also enters the new object in the parent list
\* of its first parent.
Concatenate_init_relinking(ns, id, ps) ==
    LET b == Operation(ns, "Concatenate", id, ps)
    IN Done([b.ns EXCEPT ![ps[1]].parents = Append(@, id)],
            [b.obj EXCEPT !.size = SumSizes(ns, ps),
                          !.root = ns[ps[1]].root])

Concatenate_init(ns, id, ps) ==
    LET b == Operation(ns, "Concatenate", id, ps)
    IN Done(b.ns, [b.obj EXCEPT !.size = SumSizes(ns, ps),
                                !.root = ns[ps[1]].root])

LatentNetworkOutput_init(ns, id, ps) ==
    Done(AppendChildren(ns, ps, id),
         [LatentVariable("LatentNetworkOutput") EXCEPT
              !.parents = ps, !.size = SumSizes(ns, ps)])

\* Add, Multiply, LinearCombination and ProductOfExperts: the size check
\* runs after _Operation.__init__ has registered the object.
Add_init(ns, id, ps) ==
    LET b == Operation(ns, "Add", id, ps)
    IN IF ~SameSizes(ns, ps)
       THEN Raised(b.ns, b.obj, "ValueError")
       ELSE Done(b.ns, [b.obj EXCEPT !.size = ns[ps[1]].size])

\* Multiply.__init__ with the size check left out.
Multiply_init_unchecked(ns, id, ps) ==
    LET b == Operation(ns, "Multiply", id, ps)
    IN Done(b.ns, [b.obj EXCEPT !.size = ns[ps[1]].size])

Multiply_init(ns, id, ps) ==
    LET b == Operation(ns, "Multiply", id, ps)
    IN IF ~SameSizes(ns, ps)
       THEN Raised(b.ns, b.obj, "ValueError")
       ELSE Done(b.ns, [b.obj EXCEPT !.size = ns[ps[1]].size])

LinearCombination_init(ns, id, ps) ==
    LET b == Operation(ns, "LinearCombination", id, ps)
    IN IF ~SameSizes(ns, ps)
       THEN Raised(b.ns, b.obj, "ValueError")
       ELSE Done(b.ns, [b.obj EXCEPT !.size = ns[ps[1]].size])

ProductOfExperts_init(ns, id, ps) ==
    LET b == Operation(ns, "ProductOfExperts", id, ps)
    IN IF ~SameSizes(ns, ps)
       THEN Raised(b.ns, b.obj, "ValueError")
       ELSE Done(b.ns, [b.obj EXCEPT !.size = ns[ps[1]].size])

\* ApplyLinearTrendGP.__init__ with the check of gp_parent's class left out.
ApplyLinearTrendGP_init_any_gp(ns, id, lin, gp) ==
    LET b == Operation(ns, "ApplyLinearTrendGP", id, <<lin, gp>>)
    IN IF ns[lin].kind # "Linear" THEN Raised(b.ns, b.obj, "ValueError")
       ELSE IF ns[lin].size # ns[gp].size THEN Raised(b.ns, b.obj, "ValueError")
       ELSE Done(b.ns, [b.obj EXCEPT !.size = ns[lin].size])

ApplyLinearTrendGP_init(ns, id, lin, gp) ==
    LET b == Operation(ns, "ApplyLinearTrendGP", id, <<lin, gp>>)
    IN IF ns[lin].kind # "Linear" THEN Raised(b.ns, b.obj, "ValueError")
       ELSE IF ns[gp].kind \notin GPKinds THEN Raised(b.ns, b.obj, "ValueError")
       ELSE IF ns[lin].size # ns[gp].size THEN Raised(b.ns, b.obj, "ValueError")
       ELSE Done(b.ns, [b.obj EXCEPT !.size = ns[lin].size])

\* BasicGP.__init__ and GPWithGradient.__init__: self.root.n_ip is read
\* after the size is stored; with root None it raises AttributeError.
GP_init(ns, k, id, p, sz) ==
    LET b == FunctionalLatentVariable(ns, k, id, p)
        o == [b.obj EXCEPT !.size = sz]
    IN IF o.root = None THEN Raised(b.ns, o, "AttributeError")
       ELSE Done(b.ns, o)

BasicGP_init(ns, id, p, sz) == GP_init(ns, "BasicGP", id, p, sz)

GPWithGradient_init(ns, id, p, sz) == GP_init(ns, "GPWithGradient", id, p, sz)

\* BasicGP.GPGradient.__init__: size = parent.size * root.size.
GPGradient_init(ns, id, p) ==
    LET b == FunctionalLatentVariable(ns, "GPGradient", id, p)
    IN IF b.obj.root = None THEN Raised(b.ns, b.obj, "AttributeError")
       ELSE Done(b.ns, [b.obj EXCEPT !.size = ns[p].size * ns[b.obj.root].size])

Linear_init(ns, id, p, sz) ==
    LET b == FunctionalLatentVariable(ns, "Linear", id, p)
    IN Done(b.ns, [b.obj EXCEPT !.size = sz])

\* SelectInput.__init__: size = len(columns).
SelectInput_init(ns, id, p, ncols) ==
    LET b == FunctionalLatentVariable(ns, "SelectInput", id, p)
    IN Done(b.ns, [b.obj EXCEPT !.size = ncols])

Exponentiation_init(ns, id, p) ==
    LET b == FunctionalLatentVariable(ns, "Exponentiation", id, p)
    IN Done(b.ns, [b.obj EXCEPT !.size = ns[p].size])

Bias_init(ns, id, p) ==
    LET b == FunctionalLatentVariable(ns, "Bias", id, p)
    IN Done(b.ns, [b.obj EXCEPT !.size = ns[p].size])

RadialTrend_init(ns, id, p, sz) ==
    LET b == FunctionalLatentVariable(ns, "RadialTrend", id, p)
    IN Done(b.ns, [b.obj EXCEPT !.size = sz])

----------------------------------------------------------------------------
(* Queries: predict, propagate, predict_directions                         *)

\* What a call hands back: the exception raised (NoErr when it returned),
\* the number of values of the returned tuple, and whether the samples and
\* the explained variance of a 4-tuple are tensors (TRUE) or None (FALSE).
Ret4 == [err |-> NoErr, arity |-> 4, sims |-> TRUE, exp |-> TRUE]

Ret4None == [err |-> NoErr, arity |-> 4, sims |-> FALSE, exp |-> FALSE]

Ret3 == [err |-> NoErr, arity |-> 3, sims |-> FALSE, exp |-> TRUE]

Ret2 == [err |-> NoErr, arity |-> 2, sims |-> FALSE, exp |-> FALSE]

Fail(e) == [err |-> e, arity |-> 0, sims |-> FALSE, exp |-> FALSE]

\* "a, b, c, d = call(...)": the call's exception, or ValueError when the
\* call returns another number of values than the targets.
Unpack(r, want) ==
    IF r.err # NoErr THEN r.err
    ELSE IF r.arity # want THEN "ValueError:unpack"
    ELSE NoErr

\* tf.stack / tf.concat / arithmetic on a returned component that is None.
NoneErr == "TypeError:None"

RECURSIVE Predict(_, _, _)
RECURSIVE Propagate(_, _)
RECURSIVE PredictDirections(_, _)
RECURSIVE PredictLoop(_, _, _, _)
RECURSIVE PropagateLoop(_, _)
RECURSIVE DirectionsLoop(_, _)

\* for p in parents: ... = p.predict(x, x_var, n_sim, seed), unpacked into
\* `want` targets; the first exception ends the loop.
PredictLoop(ns, ps, nsim, want) ==
    IF ps = <<>> THEN NoErr
    ELSE LET e == Unpack(Predict(ns, Head(ps), nsim), want)
         IN IF e # NoErr THEN e ELSE PredictLoop(ns, Tail(ps), nsim, want)

PropagateLoop(ns, ps) ==
    IF ps = <<>> THEN NoErr
    ELSE LET e == Propagate(ns, Head(ps))
         IN IF e # NoErr THEN e ELSE PropagateLoop(ns, Tail(ps))

DirectionsLoop(ns, ps) ==
    IF ps = <<>> THEN NoErr
    ELSE LET e == Unpack(PredictDirections(ns, Head(ps)), 3)
         IN IF e # NoErr THEN e ELSE DirectionsLoop(ns, Tail(ps))

\* Some parent handed back None for its samples or its explained variance.
SomeNone(ns, ps, nsim) ==
    \E i \in 1..Len(ps) :
        ~Predict(ns, ps[i], nsim).sims \/ ~Predict(ns, ps[i], nsim).exp

\* The 4-tuple of a combinator that stacks or concatenates what its parents
\* returned for n_sim = m.
Combined4(ns, ps, m) ==
    LET e == PredictLoop(ns, ps, m, 4)
    IN IF e # NoErr THEN Fail(e)
       ELSE IF SomeNone(ns, ps, m) THEN Fail(NoneErr)
       ELSE Ret4

Combined2(ns, ps) ==
    LET e == PredictLoop(ns, ps, 0, 2)
    IN IF e # NoErr THEN Fail(e) ELSE Ret2

\* BasicGP.predict, GPWithGradient.predict: propagate through the parent,
\* then the cross-covariance against parent.inducing_points and the
\* product with self.alpha.
GP_predict(ns, n, nsim) ==
    LET p == ns[n].parents[1]
        e == Propagate(ns, p)
    IN IF e # NoErr THEN Fail(e)
       ELSE IF ~ns[p].ip \/ ~ns[n].cov THEN Fail(NoneErr)
       ELSE IF nsim > 0 THEN Ret4 ELSE Ret2

\* CopyGP.predict: only the parent's propagate and the teacher state frozen
\* at construction; the samples read self.root.n_ip.
CopyGP_predict(ns, n, nsim) ==
    LET e == Propagate(ns, ns[n].parents[1])
    IN IF e # NoErr THEN Fail(e)
       ELSE IF nsim = 0 THEN Ret2
       ELSE IF ns[n].root = None THEN Fail("AttributeError")
       ELSE Ret4

\* BasicGP.GPGradient.predict: "g, gv = self.parent.predict_directions(...)"
\* for every direction of the root space; n_sim is not looked at.
GPGradient_predict(ns, n, nsim) ==
    LET e == Unpack(PredictDirections(ns, ns[n].parents[1]), 2)
    IN IF e # NoErr THEN Fail(e) ELSE Ret2

\* Linear.predict, Exponentiation.predict: every returned component enters
\* the arithmetic.
Scaled_predict(ns, n, nsim) ==
    IF nsim > 0 THEN Combined4(ns, ns[n].parents, nsim)
    ELSE Combined2(ns, ns[n].parents)

\* Bias.predict: sims + bias; the explained variance is handed on as is.
Bias_predict(ns, n, nsim) ==
    LET p == ns[n].parents[1]
        r == Predict(ns, p, nsim)
    IN IF nsim > 0
       THEN IF Unpack(r, 4) # NoErr THEN Fail(Unpack(r, 4))
            ELSE IF ~r.sims THEN Fail(NoneErr)
            ELSE [Ret4 EXCEPT !.exp = r.exp]
       ELSE IF Unpack(r, 2) # NoErr THEN Fail(Unpack(r, 2)) ELSE Ret2

\* RadialTrend.predict: only the parent's mean is used.
RadialTrend_predict(ns, n, nsim) ==
    LET r == Predict(ns, ns[n].parents[1], nsim)
    IN IF nsim > 0
       THEN IF Unpack(r, 4) # NoErr THEN Fail(Unpack(r, 4)) ELSE Ret4
       ELSE IF Unpack(r, 2) # NoErr THEN Fail(Unpack(r, 2)) ELSE Ret2

\* SelectInput.predict: propagate, then (mean, var, None, None).
SelectInput_predict(ns, n, nsim) ==
    LET e == Propagate(ns, n)
    IN IF e # NoErr THEN Fail(e)
       ELSE IF nsim > 0 THEN Ret4None ELSE Ret2

BasicInput_predict(nsim) == IF nsim > 0 THEN Ret4 ELSE Ret2

Concatenate_predict(ns, n, nsim) ==
    IF nsim > 0 THEN Combined4(ns, ns[n].parents, nsim)
    ELSE Combined2(ns, ns[n].parents)

\* LatentNetworkOutput.predict: four targets whatever n_sim is.
LatentNetworkOutput_predict(ns, n, nsim) == Combined4(ns, ns[n].parents, nsim)

\* Add.predict, Multiply.predict, LinearCombination.predict: four targets
\* and a 4-tuple back whatever n_sim is.
Stacked_predict(ns, n, nsim) == Combined4(ns, ns[n].parents, nsim)

\* ProductOfExperts.predict: the parents are called with max(n_sim, 1).
ProductOfExperts_predict(ns, n, nsim) ==
    LET r == Combined4(ns, ns[n].parents, IF nsim > 1 THEN nsim ELSE 1)
    IN IF r.err # NoErr THEN r
       ELSE IF nsim > 0 THEN Ret4 ELSE Ret2

ApplyLinearTrendGP_predict(ns, n, nsim) ==
    IF nsim > 0 THEN Combined4(ns, ns[n].parents, nsim)
    ELSE Combined2(ns, ns[n].parents)

Predict(ns, n, nsim) ==
    LET k == ns[n].kind
    IN CASE k = "BasicInput" -> BasicInput_predict(nsim)
         [] k = "Concatenate" -> Concatenate_predict(ns, n, nsim)
         [] k \in GPKinds -> GP_predict(ns, n, nsim)
         [] k = "CopyGP" -> CopyGP_predict(ns, n, nsim)
         [] k = "GPGradient" -> GPGradient_predict(ns, n, nsim)
         [] k \in {"Linear", "Exponentiation"} -> Scaled_predict(ns, n, nsim)
         [] k = "Bias" -> Bias_predict(ns, n, nsim)
         [] k = "RadialTrend" -> RadialTrend_predict(ns, n, nsim)
         [] k = "SelectInput" -> SelectInput_predict(ns, n, nsim)
         [] k \in {"Add", "Multiply", "LinearCombination"} ->
                Stacked_predict(ns, n, nsim)
         [] k = "ProductOfExperts" -> ProductOfExperts_predict(ns, n, nsim)
         [] k = "ApplyLinearTrendGP" -> ApplyLinearTrendGP_predict(ns, n, nsim)
         [] k = "LatentNetworkOutput" -> LatentNetworkOutput_predict(ns, n, nsim)

\* propagate(x, x_var): the exception raised, NoErr when (mean, var) comes
\* back.  The classes without an own propagate fall back on the base class.
Propagate(ns, n) ==
    LET k == ns[n].kind
    IN CASE k = "BasicInput" -> NoErr
         [] k = "Concatenate" -> PropagateLoop(ns, ns[n].parents)
         [] k = "SelectInput" -> Propagate(ns, ns[n].parents[1])
         [] k \in {"LinearCombination", "Add"} -> Unpack(Predict(ns, n, 1), 4)
         [] k \in FunctionalKinds \ {"SelectInput"} ->
                Unpack(Predict(ns, n, 0), 2)
         [] OTHER -> "NotImplementedError"

\* BasicGP.predict_directions, GPWithGradient.predict_directions: the
\* finite-difference covariances propagate through the parent and use
\* parent.inducing_points and self.alpha.
GP_predict_directions(ns, n) ==
    LET p == ns[n].parents[1]
        e == Propagate(ns, p)
    IN IF e # NoErr THEN Fail(e)
       ELSE IF ~ns[p].ip \/ ~ns[n].cov THEN Fail(NoneErr)
       ELSE Ret3

\* CopyGP.predict_directions: covariance_matrix_d1 and point_variance_d2 are
\* the teacher's, over the teacher's parent.
CopyGP_predict_directions(ns, n) ==
    LET tp == ns[ns[n].teacher].parents[1]
        e == Propagate(ns, tp)
    IN IF e # NoErr THEN Fail(e)
       ELSE IF ~ns[tp].ip THEN Fail(NoneErr)
       ELSE Ret3

\* The combinators and the functional nodes that transform what their
\* parents return.
Derived_predict_directions(ns, n) ==
    LET e == DirectionsLoop(ns, ns[n].parents)
    IN IF e # NoErr THEN Fail(e) ELSE Ret3

PredictDirections(ns, n) ==
    LET k == ns[n].kind
    IN CASE k = "BasicInput" -> Ret3
         [] k \in GPKinds -> GP_predict_directions(ns, n)
         [] k = "CopyGP" -> CopyGP_predict_directions(ns, n)
         [] k \in {"Linear", "Exponentiation", "Bias", "RadialTrend", "Add",
                   "Multiply", "LinearCombination", "ProductOfExperts",
                   "ApplyLinearTrendGP", "LatentNetworkOutput"} ->
                Derived_predict_directions(ns, n)
         [] OTHER -> Fail("NotImplementedError")

----------------------------------------------------------------------------
(* The seeds handed down by predict                                        *)

\* seed=(0, 0), the default of predict.
DefaultSeed == <<0, 0>>

\* [seed[0] + i, seed[1]] for the i-th parent of enumerate(self.parents);
\* branch counts from 1 here.
BranchSeed(seed, branch) == <<seed[1] + (branch - 1), seed[2]>>

\* One call of predict: who made it (node and the seed it had received),
\* for which of its parents (0: on itself, from propagate), and the node,
\* n_sim and seed of the call.
PredictCall(caller, cseed, branch, n, nsim, seed) ==
    [caller |-> caller, cseed |-> cseed, branch |-> branch, node |-> n,
     nsim |-> nsim, seed |-> seed]

RECURSIVE PredictCalls(_, _, _, _)
RECURSIVE PropagateCalls(_, _)

\* The call p.predict(x, x_var, nsim, seed) and the calls it makes in turn.
SubCalls(ns, caller, cseed, branch, p, nsim, seed) ==
    {PredictCall(caller, cseed, branch, p, nsim, seed)}
        \cup PredictCalls(ns, p, nsim, seed)

\* The predict calls made inside predict(x, x_var, nsim, seed) on node n
\* when no call raises.
PredictCalls(ns, n, nsim, seed) ==
    LET k == ns[n].kind
        ps == ns[n].parents
        all(m, sd(_)) ==
            UNION {SubCalls(ns, n, seed, i, ps[i], m, sd(i)) : i \in 1..Len(ps)}
        same(i) == seed
        default(i) == DefaultSeed
        derived(i) == BranchSeed(seed, i)
    IN CASE k = "BasicInput" -> {}
         [] k = "Concatenate" ->
                IF nsim > 0 THEN all(nsim, same) ELSE all(0, default)
         [] k \in GPKinds \cup {"CopyGP"} -> PropagateCalls(ns, ps[1])
         [] k = "SelectInput" -> PropagateCalls(ns, n)
         [] k = "GPGradient" -> {}
         [] k \in {"Linear", "Exponentiation", "Bias", "RadialTrend",
                   "ApplyLinearTrendGP", "LatentNetworkOutput"} ->
                all(nsim, same)
         [] k \in {"Add", "Multiply", "LinearCombination"} ->
                all(nsim, derived)
         [] k = "ProductOfExperts" ->
                all(IF nsim > 1 THEN nsim ELSE 1, derived)

\* The predict calls made inside propagate(x, x_var) on node n.
PropagateCalls(ns, n) ==
    LET k == ns[n].kind
        ps == ns[n].parents
    IN CASE k = "BasicInput" -> {}
         [] k = "Concatenate" ->
                UNION {PropagateCalls(ns, ps[i]) : i \in 1..Len(ps)}
         [] k = "SelectInput" -> PropagateCalls(ns, ps[1])
         [] k \in {"LinearCombination", "Add"} ->
                SubCalls(ns, n, DefaultSeed, 0, n, 1, DefaultSeed)
         [] k \in FunctionalKinds \ {"SelectInput"} ->
                SubCalls(ns, n, DefaultSeed, 0, n, 0, DefaultSeed)
         [] OTHER -> {}

\* Every predict call of one predict call on node n that returned.
AllCalls(ns, n, nsim, seed) ==
    SubCalls(ns, None, DefaultSeed, 0, n, nsim, seed)

----------------------------------------------------------------------------
(* refresh                                                                 *)

RECURSIVE Refresh(_, _)
RECURSIVE RefreshLoop(_, _)

\* for lat in self.parents: lat.refresh(jitter); an exception ends the loop
\* and leaves the parents refreshed so far as they are.
RefreshLoop(ns, ps) ==
    IF ps = <<>> THEN [ns |-> ns, err |-> NoErr]
    ELSE LET r == Refresh(ns, Head(ps))
         IN IF r.err # NoErr THEN r ELSE RefreshLoop(r.ns, Tail(ps))

\* all([lat.inducing_points is not None for lat in self.parents])
AllParentsIp(ns, n) ==
    \A i \in 1..Len(ns[n].parents) : ns[ns[n].parents[i]].ip

\* self.inducing_points = ...; self.inducing_points_variance = ...
StoreIp(ns, n) ==
    [ns |-> [ns EXCEPT ![n].ip = TRUE, ![n].ipv = TRUE], err |-> NoErr]

\* BasicGP.refresh, GPWithGradient.refresh additionally cache cov, cov_inv,
\* cov_smooth_inv, chol_r and alpha.
StoreGP(ns, n) ==
    [ns |-> [ns EXCEPT ![n].ip = TRUE, ![n].ipv = TRUE, ![n].cov = TRUE],
     err |-> NoErr]

\* The number of inducing points of the input (root.n_ip).
NIp == 2

\* GPWithGradient.refresh: the side of the augmented block covariance,
\* n_data * (ndim + 1) with ndim the columns of parent.inducing_points.
BlockDim(ns, n) == NIp * (ns[ns[n].parents[1]].size + 1)

\* GPWithGradient.__init__: the length of alpha_white, n_ip * root_dims; the
\* noise drawn in predict has the same length.
AlphaLen(ns, n) == NIp * (ns[ns[n].root].size + 1)

\* The statements after the parents' refresh, by class.  In
\* GPWithGradient.refresh the product of cov_chol with alpha_white fails on
\* unequal lengths before alpha and the inducing points are assigned.
RefreshBody(ns, n) ==
    LET k == ns[n].kind
        p == ns[n].parents[1]
        same == [ns |-> ns, err |-> NoErr]
        raise(e) == [ns |-> ns, err |-> e]
    IN CASE k \in {"Concatenate", "LinearCombination", "Add", "Linear",
                   "Exponentiation", "Bias", "RadialTrend"} ->
                IF AllParentsIp(ns, n) THEN StoreIp(ns, n) ELSE same
         [] k \in {"Multiply", "ProductOfExperts", "LatentNetworkOutput"} ->
                same
         [] k \in {"SelectInput", "CopyGP", "ApplyLinearTrendGP"} ->
                IF AllParentsIp(ns, n) THEN StoreIp(ns, n) ELSE raise(NoneErr)
         [] k = "BasicGP" ->
                IF ns[p].ip THEN StoreGP(ns, n) ELSE raise(NoneErr)
         [] k = "GPWithGradient" ->
                IF ~ns[p].ip THEN raise(NoneErr)
                ELSE IF Propagate(ns, p) # NoErr THEN raise(Propagate(ns, p))
                ELSE IF BlockDim(ns, n) # AlphaLen(ns, n)
                     THEN raise("InvalidArgumentError")
                ELSE StoreGP(ns, n)
         [] k = "GPGradient" ->
                LET e == Unpack(PredictDirections(ns, p), 2)
                IN IF e # NoErr THEN raise(e) ELSE StoreIp(ns, n)

\* refresh(jitter) on node n: the arena afterwards and the exception raised.
Refresh(ns, n) ==
    IF ns[n].kind = "BasicInput"
    THEN [ns |-> [ns EXCEPT ![n].ip = TRUE], err |-> NoErr]
    ELSE LET r == RefreshLoop(ns, ns[n].parents)
         IN IF r.err # NoErr THEN r ELSE RefreshBody(r.ns, n)

\* The steps of a refresh call that returns, in the order in which they
\* run: <<n, "parameters">> where n reads its own parameters ahead of the
\* parent's refresh, <<n, "body">> for the statements after the parents'
\* refresh, <<n, "return">> when n.refresh returns.
RECURSIVE RefreshEvents(_, _)
RECURSIVE ParentsEvents(_, _)

\* for lat in self.parents: lat.refresh(jitter)
ParentsEvents(ns, ps) ==
    IF ps = <<>> THEN <<>>
    ELSE RefreshEvents(ns, Head(ps)) \o ParentsEvents(ns, Tail(ps))

\* The kinds whose refresh starts with get_value() on own parameters.
ReadFirstKinds == {"Linear", "Exponentiation", "Bias"}

\* A refresh that runs its body ahead of the parents' refresh.
RefreshEvents_body_first(ns, n) ==
    <<<<n, "body">>>> \o ParentsEvents(ns, ns[n].parents) \o <<<<n, "return">>>>

RefreshEvents(ns, n) ==
    (IF ns[n].kind \in ReadFirstKinds THEN <<<<n, "parameters">>>> ELSE <<>>)
        \o ParentsEvents(ns, ns[n].parents)
        \o <<<<n, "body">>, <<n, "return">>>>

\* CopyGP.__init__: refreshes the teacher and freezes its posterior.
CopyGP_init(ns, id, p, t) ==
    LET b == FunctionalLatentVariable(ns, "CopyGP", id, p)
        o == [b.obj EXCEPT !.teacher = t, !.size = ns[t].size]
        r == Refresh(b.ns, t)
    IN IF r.err # NoErr THEN Raised(r.ns, o, r.err) ELSE Done(r.ns, o)

----------------------------------------------------------------------------
(* get_unique_parents and kl_divergence                                    *)

Range(s) == {s[i] : i \in 1..Len(s)}

\* list(set(xs)): the distinct entries, here in ascending order of identity
\* (Python fixes no order).
RECURSIVE ListOfSet(_)
ListOfSet(S) ==
    IF S = {} THEN <<>>
    ELSE LET m == CHOOSE x \in S : \A y \in S : x <= y
         IN <<m>> \o ListOfSet(S \ {m})

RECURSIVE get_unique_parents(_, _)
RECURSIVE ExtendAll(_, _)

\* for p in self.parents: all_parents.extend(p.get_unique_parents())
ExtendAll(ns, ps) ==
    IF ps = <<>> THEN <<>>
    ELSE get_unique_parents(ns, Head(ps)) \o ExtendAll(ns, Tail(ps))

\* get_unique_parents of a combinator without the pass through set().
get_unique_parents_with_repeats(ns, n) ==
    LET k == ns[n].kind
    IN CASE k = "BasicInput" -> <<>>
         [] k \in FunctionalKinds ->
                ns[n].parents \o get_unique_parents(ns, ns[n].parents[1])
         [] OTHER -> ns[n].parents \o ExtendAll(ns, ns[n].parents)

get_unique_parents(ns, n) ==
    LET k == ns[n].kind
    IN CASE k = "BasicInput" -> <<>>
         [] k \in FunctionalKinds ->
                ns[n].parents \o get_unique_parents(ns, ns[n].parents[1])
         [] OTHER ->
                ListOfSet(Range(ns[n].parents \o ExtendAll(ns, ns[n].parents)))

\* A KL value is kept as the sum it is: terms[m] counts how often the KL
\* term of GP node m (its own variational posterior against its prior)
\* enters the sum.  The constant 0.0 of the other classes adds no term.
NoTerms(ns) == [m \in NodeIds(ns) |-> 0]

OwnTerm(ns, n) == [m \in NodeIds(ns) |-> IF m = n THEN 1 ELSE 0]

AddTerms(a, b) == [m \in DOMAIN a |-> a[m] + b[m]]

RECURSIVE kl_divergence(_, _)
RECURSIVE SumKl(_, _)

\* tf.add_n([p.kl_divergence() for p in nodes_list])
SumKl(ns, list) ==
    IF list = <<>> THEN [err |-> NoErr, terms |-> NoTerms(ns)]
    ELSE LET h == kl_divergence(ns, Head(list))
             t == SumKl(ns, Tail(list))
         IN IF h.err # NoErr THEN h
            ELSE IF t.err # NoErr THEN t
            ELSE [err |-> NoErr, terms |-> AddTerms(h.terms, t.terms)]

kl_divergence(ns, n) ==
    LET k == ns[n].kind
    IN CASE k \in GPKinds ->
                IF ns[n].cov THEN [err |-> NoErr, terms |-> OwnTerm(ns, n)]
                ELSE [err |-> NoneErr, terms |-> NoTerms(ns)]
         [] k = "LatentNetworkOutput" ->
                SumKl(ns, get_unique_parents(ns, n))
         [] OTHER -> [err |-> NoErr, terms |-> NoTerms(ns)]

----------------------------------------------------------------------------
(* Parametric._all_parameters of the nodes                                 *)

\* The names a constructor passes to _add_parameter, in the order of the
\* calls.  The parameters of a transform or a kernel handed to the
\* constructor are left out.
OwnParameters(k) ==
    CASE k = "BasicInput" -> <<"inducing_points">>
      [] k \in GPKinds -> <<"alpha_white", "delta", "ranges">>
      [] k = "Linear" -> <<"weights">>
      [] k = "LinearCombination" -> <<"weights">>
      [] k = "Exponentiation" -> <<"amp_mean", "amp_scale">>
      [] k = "Bias" -> <<"bias">>
      [] k = "ApplyLinearTrendGP" -> <<"gp_weight">>
      [] k = "RadialTrend" -> <<"scale", "center">>
      [] OTHER -> <<>>

\* _add_parameter(name, parameter), once per name: the parameter objects of
\* node n, each written as the pair of its owner and its name.
AddParameters(ns, n) ==
    [i \in 1..Len(OwnParameters(ns[n].kind)) |->
        <<n, OwnParameters(ns[n].kind)[i]>>]

RECURSIVE all_parameters(_, _)
RECURSIVE RegisterLoop(_, _)

\* for lat in latent_variables: self._register(lat), which extends the list
\* by lat.all_parameters.
RegisterLoop(ns, ps) ==
    IF ps = <<>> THEN <<>>
    ELSE all_parameters(ns, Head(ps)) \o RegisterLoop(ns, Tail(ps))

\* The list _all_parameters of node n when its constructor has run: the
\* parents' lists in the order of the parents, then the node's own.
all_parameters(ns, n) ==
    RegisterLoop(ns, ns[n].parents) \o AddParameters(ns, n)

----------------------------------------------------------------------------
(* VGPNetwork._training_elbo                                               *)

\* The KL term of the ELBO: unique_nodes = get_unique_parents() with the
\* latent network itself appended, then the sum of their kl_divergence().
ElboKl(ns, n) == SumKl(ns, Append(get_unique_parents(ns, n), n))

\* The outcome of _training_elbo: the arena, the exception, the KL term.
ElboResult(ns, e, terms) == [ns |-> ns, err |-> e, terms |-> terms]

\* _log_lik: predict with n_sim = samples, unpacked into four targets, all
\* of them used.
LogLik(q) ==
    IF Unpack(q, 4) # NoErr THEN Unpack(q, 4)
    ELSE IF ~q.sims THEN NoneErr
    ELSE NoErr

\* _training_elbo after its refresh: _log_lik, then the KL term.
ElboAfterRefresh(ns, n, e, kl) ==
    IF e # NoErr THEN ElboResult(ns, e, NoTerms(ns))
    ELSE ElboResult(ns, kl.err, kl.terms)

\* _training_elbo on latent network n: refresh, _log_lik, the KL term.
TrainingElboOn(r, n, samples) ==
    IF r.err # NoErr THEN ElboResult(r.ns, r.err, NoTerms(r.ns))
    ELSE ElboAfterRefresh(r.ns, n, LogLik(Predict(r.ns, n, samples)),
                          ElboKl(r.ns, n))

TrainingElbo(ns, n, samples) == TrainingElboOn(Refresh(ns, n), n, samples)

----------------------------------------------------------------------------
(* The network as a state machine                                          *)

\* What the most recent call did: the operation, the node it was called on
\* (the new object for a constructor), n_sim, the exception, the result, and
\* for a predict that returned the predict calls made on the way, for a
\* refresh that returned the steps it took.
Idle ==
    [op |-> "init", node |-> None, nsim |-> 0, err |-> NoErr, arity |-> 0,
     sims |-> FALSE, exp |-> FALSE, terms |-> <<>>, calls |-> {},
     events |-> <<>>]

\* The parameter part is at rest while the network runs.
NoPar == [kind |-> "none"]

\* So is the mixing of parent outputs, which is followed on its own below.
NoMix == [kind |-> "none", op |-> "new"]

\* So are the computations on values, which are followed on their own below.
NoCalc == [fn |-> "none", op |-> "new"]

\* No Parametric object is followed.
NoObj == [op |-> "none"]

\* The smallest network: a root and one BasicGP layer of size 1 over it.
InitNodes ==
    LET a == BasicInput_init(<<>>, 1)
        g == BasicGP_init(Append(a.ns, a.obj), 2, 1, 1)
    IN Append(g.ns, g.obj)

Init ==
    /\ nodes = InitNodes
    /\ last = Idle
    /\ par = NoPar
    /\ plast = [op |-> "init", arg |-> <<>>]
    /\ mix = NoMix
    /\ calc = NoCalc
    /\ parametric = NoObj

Sizes == 1..MaxSize

NSims == 0..1

\* The seed pairs a caller passes.
Seeds == {DefaultSeed, <<5, 7>>}

\* The parent lists a caller can pass: references to built nodes.
ParentLists(ns) == UNION {[1..k -> Built(ns)] : k \in 1..MaxParents}

\* A constructor ran: the object enters the arena, built or not.
Install(r, k) ==
    /\ nodes' = Append(r.ns, r.obj)
    /\ last' = [Idle EXCEPT !.op = k, !.node = Len(nodes) + 1, !.err = r.err]
    /\ UNCHANGED <<par, plast, mix, calc, parametric>>

Room == Len(nodes) < MaxNodes

NewId == Len(nodes) + 1

NewBasicInput == Room /\ Install(BasicInput_init(nodes, NewId), "new")

NewConcatenate ==
    /\ Room
    /\ \E ps \in ParentLists(nodes) :
           Install(Concatenate_init(nodes, NewId, ps), "new")

NewLatentNetworkOutput ==
    /\ Room
    /\ \E ps \in ParentLists(nodes) :
           Install(LatentNetworkOutput_init(nodes, NewId, ps), "new")

NewAdd ==
    /\ Room
    /\ \E ps \in ParentLists(nodes) : Install(Add_init(nodes, NewId, ps), "new")

NewMultiply ==
    /\ Room
    /\ \E ps \in ParentLists(nodes) :
           Install(Multiply_init(nodes, NewId, ps), "new")

NewLinearCombination ==
    /\ Room
    /\ \E ps \in ParentLists(nodes) :
           Install(LinearCombination_init(nodes, NewId, ps), "new")

NewProductOfExperts ==
    /\ Room
    /\ \E ps \in ParentLists(nodes) :
           Install(ProductOfExperts_init(nodes, NewId, ps), "new")

NewApplyLinearTrendGP ==
    /\ Room
    /\ \E lin \in Built(nodes), gp \in Built(nodes) :
           Install(ApplyLinearTrendGP_init(nodes, NewId, lin, gp), "new")

NewBasicGP ==
    /\ Room
    /\ \E p \in Built(nodes), sz \in Sizes :
           Install(BasicGP_init(nodes, NewId, p, sz), "new")

\* With the default size = 1.
NewGPWithGradient ==
    /\ Room
    /\ \E p \in Built(nodes) :
           Install(GPWithGradient_init(nodes, NewId, p, 1), "new")

NewGPGradient ==
    /\ Room
    /\ \E p \in Built(nodes) : Install(GPGradient_init(nodes, NewId, p), "new")

NewLinear ==
    /\ Room
    /\ \E p \in Built(nodes), sz \in Sizes :
           Install(Linear_init(nodes, NewId, p, sz), "new")

\* With columns = [0].
NewSelectInput ==
    /\ Room
    /\ \E p \in Built(nodes) :
           Install(SelectInput_init(nodes, NewId, p, 1), "new")

NewExponentiation ==
    /\ Room
    /\ \E p \in Built(nodes) :
           Install(Exponentiation_init(nodes, NewId, p), "new")

NewBias ==
    /\ Room
    /\ \E p \in Built(nodes) : Install(Bias_init(nodes, NewId, p), "new")

\* With the default size = 1.
NewRadialTrend ==
    /\ Room
    /\ \E p \in Built(nodes) :
           Install(RadialTrend_init(nodes, NewId, p, 1), "new")

\* The teacher is a GP node, as the attributes read from it require.
NewCopyGP ==
    /\ Room
    /\ \E p \in Built(nodes) :
         \E t \in {m \in Built(nodes) : nodes[m].kind \in GPKinds} :
           Install(CopyGP_init(nodes, NewId, p, t), "new")

CallRefresh ==
    \E n \in Built(nodes) :
        LET r == Refresh(nodes, n)
        IN /\ nodes' = r.ns
           /\ last' = [Idle EXCEPT !.op = "refresh", !.node = n, !.err = r.err,
                                   !.events = IF r.err = NoErr
                                              THEN RefreshEvents(nodes, n)
                                              ELSE <<>>]
           /\ UNCHANGED <<par, plast, mix, calc, parametric>>

\* The node the caller queries: the network's output, the node built last.
\* Its ancestors are reached through it.
Output(ns) == CHOOSE n \in Built(ns) : \A m \in Built(ns) : m <= n

\* predict that also stores inducing points on the node it is called on.
CallPredict_storing ==
    \E n \in {Output(nodes)}, m \in NSims :
        LET r == Predict(nodes, n, m)
        IN /\ last' = [Idle EXCEPT !.op = "predict", !.node = n, !.nsim = m,
                                   !.err = r.err, !.arity = r.arity,
                                   !.sims = r.sims, !.exp = r.exp]
           /\ nodes' = [nodes EXCEPT ![n].ip = TRUE, ![n].ipv = TRUE]
           /\ UNCHANGED <<par, plast, mix, calc, parametric>>

CallPredict ==
    \E n \in {Output(nodes)}, m \in NSims :
      \E seed \in IF m > 0 THEN Seeds ELSE {DefaultSeed} :
        LET r == Predict(nodes, n, m)
        IN /\ last' = [Idle EXCEPT !.op = "predict", !.node = n, !.nsim = m,
                                   !.err = r.err, !.arity = r.arity,
                                   !.sims = r.sims, !.exp = r.exp,
                                   !.calls = IF r.err = NoErr
                                             THEN AllCalls(nodes, n, m, seed)
                                             ELSE {}]
           /\ UNCHANGED <<nodes, par, plast, mix, calc, parametric>>

CallPredictDirections ==
    \E n \in {Output(nodes)} :
        LET r == PredictDirections(nodes, n)
        IN /\ last' = [Idle EXCEPT !.op = "predict_directions", !.node = n,
                                   !.err = r.err, !.arity = r.arity,
                                   !.exp = r.exp]
           /\ UNCHANGED <<nodes, par, plast, mix, calc, parametric>>

CallPropagate ==
    \E n \in {Output(nodes)} :
        /\ last' = [Idle EXCEPT !.op = "propagate", !.node = n,
                                !.err = Propagate(nodes, n),
                                !.arity = IF Propagate(nodes, n) = NoErr
                                          THEN 2 ELSE 0]
        /\ UNCHANGED <<nodes, par, plast, mix, calc, parametric>>

CallKlDivergence ==
    \E n \in {Output(nodes)} :
        LET r == kl_divergence(nodes, n)
        IN /\ last' = [Idle EXCEPT !.op = "kl_divergence", !.node = n,
                                   !.err = r.err, !.terms = r.terms]
           /\ UNCHANGED <<nodes, par, plast, mix, calc, parametric>>

CallTrainingElbo ==
    \E n \in {Output(nodes)} :
        LET r == TrainingElbo(nodes, n, 1)
        IN /\ nodes' = r.ns
           /\ last' = [Idle EXCEPT !.op = "training_elbo", !.node = n,
                                   !.nsim = 1, !.err = r.err,
                                   !.terms = r.terms]
           /\ UNCHANGED <<par, plast, mix, calc, parametric>>

Next ==
    \/ NewBasicInput
    \/ NewConcatenate
    \/ NewLatentNetworkOutput
    \/ NewAdd
    \/ NewMultiply
    \/ NewLinearCombination
    \/ NewProductOfExperts
    \/ NewApplyLinearTrendGP
    \/ NewBasicGP
    \/ NewGPWithGradient
    \/ NewGPGradient
    \/ NewLinear
    \/ NewSelectInput
    \/ NewExponentiation
    \/ NewBias
    \/ NewRadialTrend
    \/ NewCopyGP
    \/ CallRefresh
    \/ CallPredict
    \/ CallPredictDirections
    \/ CallPropagate
    \/ CallKlDivergence
    \/ CallTrainingElbo

Spec == Init /\ [][Next]_vars

-----------------------------------------------------------------------------
(* Nested combinators over three GP layers                                 *)
(*                                                                         *)
(* The networks of Spec are too small for a combinator over a combinator   *)
(* over distinct GP layers.  Here the arena starts with an input and three *)
(* refreshed BasicGP layers of size 1 over it, and only combinators are    *)
(* built on top.                                                           *)

MaxNested == 6

\* x = BasicInput(); a, b, c = BasicGP(x); each refreshed.
NestedNodes ==
    LET x == BasicInput_init(<<>>, 1)
        a == BasicGP_init(Append(x.ns, x.obj), 2, 1, 1)
        b == BasicGP_init(Append(a.ns, a.obj), 3, 1, 1)
        c == BasicGP_init(Append(b.ns, b.obj), 4, 1, 1)
        r2 == Refresh(Append(c.ns, c.obj), 2)
        r3 == Refresh(r2.ns, 3)
    IN Refresh(r3.ns, 4).ns

NestedInit ==
    /\ nodes = NestedNodes
    /\ last = Idle
    /\ par = NoPar
    /\ plast = [op |-> "init", arg |-> <<>>]
    /\ mix = NoMix
    /\ calc = NoCalc
    /\ parametric = NoObj

\* The constructor of a combinator that takes a parent list.
Combinator_init(k, ns, id, ps) ==
    CASE k = "Add" -> Add_init(ns, id, ps)
      [] k = "Multiply" -> Multiply_init(ns, id, ps)
      [] k = "LinearCombination" -> LinearCombination_init(ns, id, ps)
      [] k = "ProductOfExperts" -> ProductOfExperts_init(ns, id, ps)
      [] k = "Concatenate" -> Concatenate_init(ns, id, ps)

NewCombinator ==
    /\ Len(nodes) < MaxNested
    /\ \E k \in ElementwiseKinds \cup {"Concatenate"}, ps \in ParentLists(nodes) :
          Install(Combinator_init(k, nodes, NewId, ps), "new")

NestedNext ==
    \/ NewCombinator
    \/ CallPredict

NestedSpec == NestedInit /\ [][NestedNext]_vars

----------------------------------------------------------------------------
(* Parameters (src/geoml/parameter.py)                                     *)
(*                                                                         *)
(* One parameter object, par.  Its variable and its transformed limits are *)
(* arrays of ParLen numbers (a vector, or the single row of a rank-2       *)
(* matrix with ParLen columns).  Numbers are fixed-point: one unit is 1e-6,*)
(* Scale units are 1.0.                                                    *)

Scale == 1000000

\* ln 2 in units of 1e-6.
Ln2 == 693147

ParLen == 2

Idx == 1..ParLen

BoundedKinds == {"RealParameter", "PositiveParameter"}

LogKinds == {"PositiveParameter", "CompositionalParameter"}

NormKinds == {"UnitColumnNormParameter", "CenteredUnitColumnNormParameter"}

ParKinds ==
    BoundedKinds \cup NormKinds
        \cup {"CompositionalParameter", "CircularParameter"}

Abs(x) == IF x < 0 THEN -x ELSE x

Min2(a, b) == IF a < b THEN a ELSE b

Max2(a, b) == IF a > b THEN a ELSE b

\* floor(a / b) for b # 0.
FloorDiv(a, b) == IF b > 0 THEN a \div b ELSE (-a) \div (-b)

\* a / b in fixed point for b > 0, rounded towards zero; the quotient is
\* taken three digits at a time to stay within 32-bit integers.
FixDiv(a, b) ==
    LET n == Abs(a) * 1000
        q == (n \div b) * 1000 + ((n % b) * 1000) \div b
    IN IF a < 0 THEN -q ELSE q

RECURSIVE Log2(_)
Log2(n) == IF n <= 1 THEN 0 ELSE 1 + Log2(n \div 2)

\* tf.math.log on the values used here, 2^k for an integer k.
Ln(x) == IF x >= Scale THEN Log2(x \div Scale) * Ln2
         ELSE -(Log2(Scale \div x) * Ln2)

\* x[1] + ... + x[n]
RECURSIVE SumTo(_, _)
SumTo(x, n) == IF n = 0 THEN 0 ELSE x[n] + SumTo(x, n - 1)

\* _transform, by class.
Transform(kind, x) ==
    CASE kind = "PositiveParameter" -> [i \in Idx |-> Ln(x[i])]
      [] kind = "CompositionalParameter" ->
            LET l == [i \in Idx |-> Ln(x[i])]
                mean == SumTo(l, ParLen) \div ParLen
            IN [i \in Idx |-> l[i] - mean]
      [] OTHER -> x

\* RealParameter.refresh, inherited by PositiveParameter and
\* CompositionalParameter:
\* tf.maximum(min_transformed, tf.minimum(max_transformed, variable)).
RealParameter_refresh(p) ==
    [p EXCEPT !.variable =
        [i \in Idx |-> Max2(p.min[i], Min2(p.max[i], p.variable[i]))]]

\* CircularParameter.refresh: wraps the variable into the range.
CircularParameter_refresh(p) ==
    [p EXCEPT !.variable =
        [i \in Idx |->
            LET amp == p.max[i] - p.min[i]
                n_laps == FloorDiv(p.variable[i] - p.min[i], amp)
            IN p.variable[i] - n_laps * amp]]

\* UnitColumnNormParameter.refresh: every column divided by its Euclidean
\* norm + 1e-6; with one row the norm of a column is the absolute value of
\* its entry.
UnitColumnNormParameter_refresh(p) ==
    [p EXCEPT !.variable =
        [i \in Idx |-> FixDiv(p.variable[i], Abs(p.variable[i]) + 1)]]

\* CenteredUnitColumnNormParameter.refresh: the row mean is subtracted
\* first (reduce_mean over axis 1).
CenteredUnitColumnNormParameter_refresh(p) ==
    LET mean == SumTo(p.variable, ParLen) \div ParLen
        c == [i \in Idx |-> p.variable[i] - mean]
    IN [p EXCEPT !.variable = [i \in Idx |-> FixDiv(c[i], Abs(c[i]) + 1)]]

\* refresh(), dispatched on the class.
ParRefresh(p) ==
    CASE p.kind = "CircularParameter" -> CircularParameter_refresh(p)
      [] p.kind = "UnitColumnNormParameter" ->
            UnitColumnNormParameter_refresh(p)
      [] p.kind = "CenteredUnitColumnNormParameter" ->
            CenteredUnitColumnNormParameter_refresh(p)
      [] OTHER -> RealParameter_refresh(p)

\* RealParameter.__init__: the value and the limits are transformed and
\* stored, then refresh() runs.
RealParameter_init(kind, value, min_val, max_val) ==
    ParRefresh([kind |-> kind, variable |-> Transform(kind, value),
                min |-> Transform(kind, min_val),
                max |-> Transform(kind, max_val)])

\* CompositionalParameter.__init__: after the base constructor the limits
\* become -10 and 10 and the variable is assigned again, without refresh.
CompositionalParameter_init(value) ==
    [RealParameter_init("CompositionalParameter", value, value, value)
        EXCEPT !.min = [i \in Idx |-> -10 * Scale],
               !.max = [i \in Idx |-> 10 * Scale],
               !.variable = Transform("CompositionalParameter", value)]

\* set_value(value, transformed) without its closing refresh().
set_value_unrefreshed(p, value, transformed) ==
    [p EXCEPT !.variable =
        IF transformed THEN value ELSE Transform(p.kind, value)]

\* set_value(value, transformed)
set_value(p, value, transformed) ==
    ParRefresh([p EXCEPT !.variable =
        IF transformed THEN value ELSE Transform(p.kind, value)])

\* set_limits(min_val, max_val); <<>> stands for None.
set_limits(p, min_val, max_val) ==
    ParRefresh([p EXCEPT
        !.min = IF min_val = <<>> THEN @ ELSE Transform(p.kind, min_val),
        !.max = IF max_val = <<>> THEN @ ELSE Transform(p.kind, max_val)])

----------------------------------------------------------------------------
(* The parameter as a state machine                                        *)

\* Natural-space values a caller passes, by class; the classes in log
\* scale get powers of two.
NaturalVals(kind) ==
    IF kind \in LogKinds THEN {Scale \div 4, Scale, 4 * Scale}
    ELSE IF kind \in NormKinds THEN {-2 * Scale, 0, 2, Scale}
    ELSE {-2 * Scale, 0, 2 * Scale}

\* Values written in the transformed representation.
TransformedVals(kind) ==
    IF kind \in LogKinds THEN {-3 * Ln2, 0, 3 * Ln2} ELSE NaturalVals(kind)

\* Limits a caller passes (natural space), the same for every entry.
LimitVals(kind) ==
    IF kind \in LogKinds THEN {Scale \div 2, 2 * Scale} ELSE {-Scale, Scale}

Arrays(S) == [Idx -> S]

Uniform(S) == {[i \in Idx |-> c] : c \in S}

\* A circular parameter with max = min divides by zero in refresh and its
\* variable becomes NaN, which these integers do not represent.
Representable(p) ==
    p.kind = "CircularParameter" => \A i \in Idx : p.min[i] # p.max[i]

Constructed ==
    {RealParameter_init(k, v, lo, hi) :
        k \in {"RealParameter"}, v \in Arrays(NaturalVals("RealParameter")),
        lo \in Uniform(LimitVals("RealParameter")),
        hi \in Uniform(LimitVals("RealParameter"))}
    \cup
    {RealParameter_init(k, v, lo, hi) :
        k \in {"PositiveParameter"},
        v \in Arrays(NaturalVals("PositiveParameter")),
        lo \in Uniform(LimitVals("PositiveParameter")),
        hi \in Uniform(LimitVals("PositiveParameter"))}
    \cup
    {CompositionalParameter_init(v) :
        v \in Arrays(NaturalVals("CompositionalParameter"))}
    \cup
    {RealParameter_init("CircularParameter", v, [i \in Idx |-> -Scale],
                        [i \in Idx |-> Scale]) :
        v \in Arrays(NaturalVals("CircularParameter"))}
    \cup
    {RealParameter_init(k, v, [i \in Idx |-> -Scale], [i \in Idx |-> Scale]) :
        k \in NormKinds, v \in Arrays(NaturalVals("UnitColumnNormParameter"))}

\* The call that ran last on the parameter, with the value it was given.
PCall(op, arg) == [op |-> op, arg |-> arg]

PInit ==
    /\ par \in Constructed
    /\ plast = PCall("new", <<>>)
    /\ nodes = <<>>
    /\ last = Idle
    /\ mix = NoMix
    /\ calc = NoCalc
    /\ parametric = NoObj

ParSetValue ==
    \/ \E v \in Arrays(NaturalVals(par.kind)) :
          /\ par' = set_value(par, v, FALSE)
          /\ plast' = PCall("set_value", Transform(par.kind, v))
          /\ UNCHANGED <<nodes, last, mix, calc, parametric>>
    \/ \E v \in Arrays(TransformedVals(par.kind)) :
          /\ par' = set_value(par, v, TRUE)
          /\ plast' = PCall("set_value", v)
          /\ UNCHANGED <<nodes, last, mix, calc, parametric>>

ParSetLimits ==
    \E lo \in Uniform(LimitVals(par.kind)) \cup {<<>>},
       hi \in Uniform(LimitVals(par.kind)) \cup {<<>>} :
        /\ Representable([par EXCEPT
               !.min = IF lo = <<>> THEN @ ELSE Transform(par.kind, lo),
               !.max = IF hi = <<>> THEN @ ELSE Transform(par.kind, hi)])
        /\ par' = set_limits(par, lo, hi)
        /\ plast' = PCall("set_limits", <<>>)
        /\ UNCHANGED <<nodes, last, mix, calc, parametric>>

ParCallRefresh ==
    /\ par' = ParRefresh(par)
    /\ plast' = PCall("refresh", <<>>)
    /\ UNCHANGED <<nodes, last, mix, calc, parametric>>

\* The optimizer's step (VGPNetwork.train_full: optimizer.minimize) assigns
\* to the variable directly; refresh is a later call.
OptimizerAssign ==
    \E v \in Arrays(TransformedVals(par.kind)) :
        /\ par' = [par EXCEPT !.variable = v]
        /\ plast' = PCall("assign", v)
        /\ UNCHANGED <<nodes, last, mix, calc, parametric>>

PNext ==
    \/ ParSetValue
    \/ ParSetLimits
    \/ ParCallRefresh
    \/ OptimizerAssign

ParamSpec == PInit /\ [][PNext]_vars

-----------------------------------------------------------------------------
(* Mixing weights of LinearCombination and ProductOfExperts                *)
(*                                                                         *)
(* One output dimension at one query point: each parent reports a variance *)
(* and an explained variance there, in fixed point (Scale is 1.0, so the   *)
(* code's 1e-6 is 1).  A weight vector is kept as exact fractions over one *)
(* denominator, num[i] / den; den = 0 is the division 0 / 0, whose result  *)
(* is NaN in every component.                                              *)

MixParents == 2

MixIdx == 1..MixParents

\* 1e-6 in fixed point.
Eps == 1

RECURSIVE ProdTo(_, _)
ProdTo(x, n) == IF n = 0 THEN 1 ELSE x[n] * ProdTo(x, n - 1)

\* weights / tf.reduce_sum(weights, axis=0, keepdims=True)
Normalised(w) == [num |-> w, den |-> SumTo(w, MixParents)]

\* exp(t) for t = k ln 2, doubled so that exp(-ln 2) is a whole number.
Exp(t) == 2 ^ ((t \div Ln2) + 1)

\* tf.nn.softmax
Softmax(t) == Normalised([i \in MixIdx |-> Exp(t[i])])

\* LinearCombination: self.parameters["weights"].get_value(), the same in
\* refresh, predict and predict_directions.
LinearCombination_weights(t) == Softmax(t)

\* all_explained_var / (all_var + 1e-6) + offset, over the common denominator
\* Scale * prod(all_var + 1e-6).
Ratios(ev, var, offset) ==
    LET d == [i \in MixIdx |-> var[i] + Eps]
        D == Scale * ProdTo(d, MixParents)
    IN [i \in MixIdx |-> ev[i] * (D \div d[i]) + offset * (D \div Scale)]

\* ProductOfExperts.predict
ProductOfExperts_weights(ev, var) == Normalised(Ratios(ev, var, Eps))

\* ProductOfExperts.predict_directions
ProductOfExperts_directions_weights(ev, var) == Normalised(Ratios(ev, var, 0))

\* Variances and explained variances a parent reports (0, 1e-6, 3e-6), and
\* values of the weights' variable.
VarVals == {0, 1, 3}

LogitVals == {-Ln2, 0, Ln2}

MixKinds == {"LinearCombination", "ProductOfExperts"}

MixInputs ==
    [kind : MixKinds, op : {"new"},
     ev : [MixIdx -> VarVals], var : [MixIdx -> VarVals],
     t : [MixIdx -> LogitVals],
     num : {[i \in MixIdx |-> 0]}, den : {0}]

Mixed(op, w) == [mix EXCEPT !.op = op, !.num = w.num, !.den = w.den]

MInit ==
    /\ mix \in MixInputs
    /\ calc = NoCalc
    /\ parametric = NoObj
    /\ nodes = <<>>
    /\ last = Idle
    /\ par = NoPar
    /\ plast = [op |-> "init", arg |-> <<>>]

\* New parent outputs (another query point) or another value of the weights.
MixNewBatch ==
    /\ mix' \in MixInputs
    /\ UNCHANGED <<nodes, last, par, plast, calc, parametric>>

MixLinearCombination ==
    /\ mix.kind = "LinearCombination"
    /\ \E op \in {"refresh", "predict", "predict_directions"} :
          mix' = Mixed(op, LinearCombination_weights(mix.t))
    /\ UNCHANGED <<nodes, last, par, plast, calc, parametric>>

MixProductOfExperts_predict ==
    /\ mix.kind = "ProductOfExperts"
    /\ mix' = Mixed("predict", ProductOfExperts_weights(mix.ev, mix.var))
    /\ UNCHANGED <<nodes, last, par, plast, calc, parametric>>

MixProductOfExperts_predict_directions ==
    /\ mix.kind = "ProductOfExperts"
    /\ mix' = Mixed("predict_directions",
                    ProductOfExperts_directions_weights(mix.ev, mix.var))
    /\ UNCHANGED <<nodes, last, par, plast, calc, parametric>>

MNext ==
    \/ MixNewBatch
    \/ MixLinearCombination
    \/ MixProductOfExperts_predict
    \/ MixProductOfExperts_predict_directions

MixSpec == MInit /\ [][MNext]_vars

-----------------------------------------------------------------------------
(* Computations on values                                                  *)
(*                                                                         *)
(* calc holds one computation at a time: the function (fn), its inputs and, *)
(* once it ran (op), its result.  Numbers are in fixed point.              *)

\* a * b in fixed point for multiples of 0.001.
FixMul(a, b) == (a \div 1000) * (b \div 1000)

\* BasicInput.propagate with the Identity transform: x_var, given or not,
\* is not looked at.
BasicInput_propagate(x, center, given, x_var) ==
    [mean |-> x - center, var |-> 0]

\* RadialTrend.compute_trend from "trend = tf.where(...)" on, for one value
\* of dist, the distance to the centre divided by the scale.
compute_trend(dist) ==
    IF dist > 2 * Scale THEN 0
    ELSE IF dist < Scale THEN Scale - FixMul(dist, dist)
    ELSE FixMul(dist, dist) - 4 * dist + 3 * Scale

\* Coordinates, variances and scaled distances (0, 0.5, ..., 2.5).
CoordVals == {0, Scale}

DistVals == {(i * Scale) \div 2 : i \in 0..5}

PropagateInputs ==
    [fn : {"BasicInput.propagate"}, op : {"new"}, x : CoordVals,
     center : {0, Scale \div 2}, given : BOOLEAN, x_var : CoordVals,
     mean : {0}, var : {0}]

TrendInputs ==
    [fn : {"RadialTrend.compute_trend"}, op : {"new"}, dist : DistVals,
     trend : {0}]

\* The teacher of a CopyGP.  Its parameters are kept as the values they
\* hold; what its refresh caches is kept as the parameter values it was
\* computed from.
TeacherVals == {Scale, 2 * Scale}

TeacherParameters ==
    [alpha_white : TeacherVals, delta : TeacherVals, ranges : TeacherVals]

\* BasicGP.refresh on the teacher: alpha from alpha_white and the kernel
\* ranges, cov_smooth_inv and chol_r from delta and the ranges.
TeacherRefresh(t) ==
    [alpha |-> <<t.alpha_white, t.ranges>>,
     cov_smooth_inv |-> <<t.delta, t.ranges>>,
     chol_r |-> <<t.delta, t.ranges>>]

\* CopyGP.__init__: teacher_gp.refresh(1e-6), then tf.constant copies of
\* alpha, cov_smooth_inv and chol_r; the teacher itself is kept by reference.
CopyGP_frozen(t) == TeacherRefresh(t)

\* What CopyGP.refresh, predict and predict_directions compute from: the
\* frozen copies and the covariance against the teacher's inducing points,
\* which reads teacher_gp.parameters["ranges"] when the call runs.
CopyGP_output(frozen, t) ==
    [alpha |-> frozen.alpha, cov_smooth_inv |-> frozen.cov_smooth_inv,
     ranges |-> t.ranges]

CopyInputs ==
    {[fn |-> "CopyGP", op |-> "new", built |-> t, teacher |-> t,
      frozen |-> CopyGP_frozen(t), out |-> CopyGP_output(CopyGP_frozen(t), t),
      kl |-> 0] : t \in TeacherParameters}

ValueInputs == PropagateInputs \cup TrendInputs \cup CopyInputs

VInit ==
    /\ calc \in ValueInputs
    /\ nodes = <<>>
    /\ last = Idle
    /\ par = NoPar
    /\ plast = [op |-> "init", arg |-> <<>>]
    /\ mix = NoMix
    /\ parametric = NoObj

\* Another call, another object.
NewValues ==
    /\ calc' \in ValueInputs
    /\ UNCHANGED <<nodes, last, par, plast, mix, parametric>>

CallBasicInputPropagate ==
    /\ calc.fn = "BasicInput.propagate"
    /\ LET r == BasicInput_propagate(calc.x, calc.center, calc.given, calc.x_var)
       IN calc' = [calc EXCEPT !.op = "propagate", !.mean = r.mean,
                               !.var = r.var]
    /\ UNCHANGED <<nodes, last, par, plast, mix, parametric>>

CallComputeTrend ==
    /\ calc.fn = "RadialTrend.compute_trend"
    /\ calc' = [calc EXCEPT !.op = "compute_trend",
                            !.trend = compute_trend(calc.dist)]
    /\ UNCHANGED <<nodes, last, par, plast, mix, parametric>>

\* set_value on a teacher parameter, then teacher.refresh().
TeacherChange ==
    /\ calc.fn = "CopyGP"
    /\ \E t \in TeacherParameters :
          calc' = [calc EXCEPT !.op = "teacher", !.teacher = t]
    /\ UNCHANGED <<nodes, last, par, plast, mix, parametric>>

CallCopyGP ==
    /\ calc.fn = "CopyGP"
    /\ \E op \in {"refresh", "predict", "predict_directions"} :
          calc' = [calc EXCEPT !.op = op,
                               !.out = CopyGP_output(calc.frozen, calc.teacher)]
    /\ UNCHANGED <<nodes, last, par, plast, mix, parametric>>

\* CopyGP.kl_divergence: the constant 0.0.
CallCopyGPKlDivergence ==
    /\ calc.fn = "CopyGP"
    /\ calc' = [calc EXCEPT !.op = "kl_divergence", !.kl = 0]
    /\ UNCHANGED <<nodes, last, par, plast, mix, parametric>>

VNext ==
    \/ NewValues
    \/ CallBasicInputPropagate
    \/ CallComputeTrend
    \/ TeacherChange
    \/ CallCopyGP
    \/ CallCopyGPKlDivergence

ValueSpec == VInit /\ [][VNext]_vars

-----------------------------------------------------------------------------
(* A Parametric object: its parameter list, the flat parameter vector and  *)
(* the training loops of VGPNetwork                                        *)
(*                                                                         *)
(* parametric.ps holds the parameter objects, parametric.fixed and parametric.scalar their      *)
(* `fixed` flag and whether their shape is (), parametric.all the list            *)
(* _all_parameters, in which a parameter may stand more than once.  A      *)
(* scalar is kept as an array whose entries all hold its one number.       *)
(* Positions count from 1.  parametric.raw[i] is the value the last write from    *)
(* outside assigned to parameter i, <<>> before the first such write.      *)

NPar == 2

MaxList == 3

\* The number of refresh calls after which a value is taken as settled.
MaxRefresh == 3

ParIds == 1..NPar

\* One parameter of each class, as its constructor leaves it.
ObjParameter(kind) ==
    CASE kind = "CompositionalParameter" ->
            CompositionalParameter_init([i \in Idx |-> Scale])
      [] kind = "PositiveParameter" ->
            RealParameter_init(kind, [i \in Idx |-> Scale],
                               [i \in Idx |-> Scale \div 2],
                               [i \in Idx |-> 2 * Scale])
      [] kind \in NormKinds ->
            RealParameter_init(kind, [i \in Idx |-> Scale],
                               [i \in Idx |-> -Scale], [i \in Idx |-> Scale])
      [] OTHER ->
            RealParameter_init(kind, [i \in Idx |-> 0],
                               [i \in Idx |-> -Scale], [i \in Idx |-> Scale])

\* tf.reshape(parameter.variable, [-1])
Flat(o, id) ==
    IF o.scalar[id] THEN <<o.ps[id].variable[1]>>
    ELSE [i \in 1..ParLen |-> o.ps[id].variable[i]]

\* tf.shape(parameter.variable); the classes with unit columns are rank 2.
Shape(o, id) ==
    IF o.scalar[id] THEN <<>>
    ELSE IF o.ps[id].kind \in NormKinds THEN <<1, ParLen>>
    ELSE <<ParLen>>

RECURSIVE Prod(_)
Prod(sh) == IF sh = <<>> THEN 1 ELSE Head(sh) * Prod(Tail(sh))

\* The loop of get_parameter_values from list position index on.
RECURSIVE GetFrom(_, _, _)
GetFrom(o, complete, index) ==
    IF index > Len(o.all) THEN [value |-> <<>>, shape |-> <<>>, position |-> <<>>]
    ELSE IF (~o.fixed[o.all[index]]) \/ complete
    THEN [value |-> Flat(o, o.all[index]) \o GetFrom(o, complete, index + 1).value,
          shape |-> <<Shape(o, o.all[index])>>
                        \o GetFrom(o, complete, index + 1).shape,
          position |-> <<index>> \o GetFrom(o, complete, index + 1).position]
    ELSE GetFrom(o, complete, index + 1)

\* get_parameter_values(complete): value, shape, position (min_val and
\* max_val are left out).  np.concatenate raises ValueError on an empty list.
get_parameter_values(o, complete) ==
    IF GetFrom(o, complete, 1).position = <<>> THEN [err |-> "ValueError"]
    ELSE [err |-> NoErr, complete |-> complete,
          value |-> GetFrom(o, complete, 1).value,
          shape |-> GetFrom(o, complete, 1).shape,
          position |-> GetFrom(o, complete, 1).position]

\* np.reshape(val, sh), or the squeezed number for shape (), as the array
\* the variable holds after the assignment.
Reshaped(val, sh) ==
    IF sh = <<>> THEN [i \in Idx |-> val[1]] ELSE [i \in Idx |-> val[i]]

\* update_parameters(value, shape, position): value is split by the sizes
\* of the shapes, and piece by piece
\* _all_parameters[pos].set_value(piece, transformed=True).
RECURSIVE update_parameters(_, _, _, _, _)
update_parameters(ps, all, value, shape, position) ==
    IF shape = <<>> \/ position = <<>> THEN ps
    ELSE update_parameters(
            [ps EXCEPT ![all[Head(position)]] =
                set_value(@,
                    Reshaped(SubSeq(value, 1, Prod(Head(shape))), Head(shape)),
                    TRUE)],
            all, SubSeq(value, Prod(Head(shape)) + 1, Len(value)),
            Tail(shape), Tail(position))

\* The values update_parameters assigns, by parameter; a parameter listed
\* twice keeps the later piece.
RECURSIVE Written(_, _, _, _, _)
Written(raw, all, value, shape, position) ==
    IF shape = <<>> \/ position = <<>> THEN raw
    ELSE Written(
            [raw EXCEPT ![all[Head(position)]] =
                Reshaped(SubSeq(value, 1, Prod(Head(shape))), Head(shape))],
            all, SubSeq(value, Prod(Head(shape)) + 1, Len(value)),
            Tail(shape), Tail(position))

\* A loop of pr.refresh() that reaches no parameter.
refresh_none(ps, S) == ps

\* for pr in S: pr.refresh()
refresh_all(ps, S) == [i \in DOMAIN ps |-> IF i \in S THEN ParRefresh(ps[i]) ELSE ps[i]]

\* [pr for pr in S if not pr.fixed]: the parameters whose variables the
\* optimizer gets.
model_variables(o, S) == {i \in S : ~o.fixed[i]}

TrainLoops == {"train_full", "train_svi", "train_batched", "train_svi_experts"}

\* Parameter 1 is of any class; the others are bounded, and may be scalars.
ObjInputs ==
    {[op |-> "new", pc |-> "idle", loop |-> "none", expert |-> {},
      ps |-> [i \in ParIds |-> ObjParameter(k[i])],
      fixed |-> f, scalar |-> sc, all |-> l,
      raw |-> [i \in ParIds |-> <<>>], got |-> [err |-> "unset"]] :
        k \in {kk \in [ParIds -> ParKinds] :
                  \A i \in ParIds : i > 1 => kk[i] \in BoundedKinds},
        f \in [ParIds -> BOOLEAN],
        sc \in {ss \in [ParIds -> BOOLEAN] : ~ss[1]},
        l \in {ll \in UNION {[1..n -> ParIds] : n \in NPar..MaxList} :
                  \A i \in ParIds : \E j \in DOMAIN ll : ll[j] = i}}

OInit ==
    /\ parametric \in ObjInputs
    /\ nodes = <<>>
    /\ last = Idle
    /\ par = NoPar
    /\ plast = [op |-> "init", arg |-> <<>>]
    /\ mix = NoMix
    /\ calc = NoCalc

\* The values a write from outside assigns to a parameter's variable.
WriteVals(o, W) ==
    {[i \in ParIds |-> IF i \in W THEN [j \in Idx |-> c[i]] ELSE <<>>] :
        c \in [ParIds -> {-2 * Scale, 2}]}

CallGetParameterValues ==
    \E complete \in BOOLEAN :
        /\ parametric.pc = "idle"
        /\ parametric' = [parametric EXCEPT !.op = "get_parameter_values",
                              !.got = get_parameter_values(parametric, complete)]
        /\ UNCHANGED <<nodes, last, par, plast, mix, calc>>

\* update_parameters with the vector get_parameter_values returned (as
\* load_state does after save_state), or with other values of that layout.
CallUpdateParameters ==
    /\ parametric.pc = "idle"
    /\ parametric.got.err = NoErr
    /\ \/ parametric' = [parametric EXCEPT
               !.op = "update_parameters(got)",
               !.ps = update_parameters(parametric.ps, parametric.all, parametric.got.value,
                                        parametric.got.shape, parametric.got.position),
               !.raw = Written(parametric.raw, parametric.all, parametric.got.value,
                               parametric.got.shape, parametric.got.position)]
       \/ \E c \in {-2 * Scale, 2} :
            parametric' = [parametric EXCEPT
               !.op = "update_parameters",
               !.ps = update_parameters(parametric.ps, parametric.all,
                         [i \in 1..Len(parametric.got.value) |-> c],
                         parametric.got.shape, parametric.got.position),
               !.raw = Written(parametric.raw, parametric.all,
                         [i \in 1..Len(parametric.got.value) |-> c],
                         parametric.got.shape, parametric.got.position),
               !.got = [err |-> "unset"]]
    /\ UNCHANGED <<nodes, last, par, plast, mix, calc>>

\* The head of a training loop: unique_params and the variables handed to
\* the optimizer.  train_svi_experts trains one expert's parameters at a
\* time (expert_params[i]), the other loops all of them.
CallTrain ==
    \E loop \in TrainLoops, E \in SUBSET Range(parametric.all) :
        /\ parametric.pc = "idle"
        /\ E # {}
        /\ loop # "train_svi_experts" => E = Range(parametric.all)
        /\ parametric' = [parametric EXCEPT !.op = loop, !.loop = loop, !.pc = "minimize",
                              !.expert = E, !.got = [err |-> "unset"]]
        /\ UNCHANGED <<nodes, last, par, plast, mix, calc>>

\* optimizer.minimize(loss, variables), or the gradient of the loss and
\* optimizer.apply_gradients in train_batched: the ELBO is evaluated on the
\* parameters as they are, then the optimizer assigns to the variables.
TrainMinimize ==
    \E w \in WriteVals(parametric, model_variables(parametric, parametric.expert)) :
        /\ parametric.pc = "minimize"
        /\ parametric' = [parametric EXCEPT
               !.op = "minimize", !.pc = "refresh",
               !.ps = [i \in ParIds |->
                          IF w[i] = <<>> THEN parametric.ps[i]
                          ELSE [parametric.ps[i] EXCEPT !.variable = w[i]]],
               !.raw = [i \in ParIds |->
                          IF w[i] = <<>> THEN parametric.raw[i] ELSE w[i]]]
        /\ UNCHANGED <<nodes, last, par, plast, mix, calc>>

\* for pr in self._all_parameters: pr.refresh()  (expert_params[i] in
\* train_svi_experts), then the next iteration or the end of the loop.
TrainRefresh ==
    \E next \in {"minimize", "idle"} :
        /\ parametric.pc = "refresh"
        /\ parametric' = [parametric EXCEPT
               !.op = "refresh", !.pc = next,
               !.ps = refresh_all(parametric.ps, parametric.expert)]
        /\ UNCHANGED <<nodes, last, par, plast, mix, calc>>

ONext ==
    \/ CallGetParameterValues
    \/ CallUpdateParameters
    \/ CallTrain
    \/ TrainMinimize
    \/ TrainRefresh

ObjSpec == OInit /\ [][ONext]_vars

----------------------------------------------------------------------------
(* Properties                                                              *)

\* The nodes from which n is reachable through the parent relation.
RECURSIVE Ancestors(_, _)
Ancestors(ns, n) ==
    UNION {{ns[n].parents[i]} \cup Ancestors(ns, ns[n].parents[i]) :
             i \in 1..Len(ns[n].parents)}

\* The sum that holds the KL term of every GP node of S exactly once.
OnceEach(ns, S) ==
    [m \in NodeIds(ns) |-> IF m \in S /\ ns[m].kind \in GPKinds THEN 1 ELSE 0]

\* C1: when LatentNetworkOutput.kl_divergence() returns, the sum holds the
\* KL term of every distinct ancestor exactly once, whatever the paths to
\* it and also with a LatentNetworkOutput among the ancestors.
C1_KlCountsEachAncestorOnce ==
    (/\ last.op = "kl_divergence"
     /\ last.err = NoErr
     /\ nodes[last.node].kind = "LatentNetworkOutput")
        => last.terms = OnceEach(nodes, Ancestors(nodes, last.node))

\* C2: the KL term that _training_elbo subtracts holds the KL term of every
\* unique node of the latent network (the network node and its ancestors)
\* exactly once, whatever the kind of the network node.
C2_ElboKlCountsEachNodeOnce ==
    (last.op = "training_elbo" /\ last.err = NoErr)
        => last.terms =
               OnceEach(nodes, Ancestors(nodes, last.node) \cup {last.node})

\* C3: predict returns (mean, variance, samples, explained_variance), all
\* four tensors, when n_sim > 0 and (mean, variance) when n_sim = 0, and no
\* node unpacks another number of values than its parent returns.
C3_PredictTupleContract ==
    last.op = "predict" =>
        /\ last.err # "ValueError:unpack"
        /\ last.err = NoErr =>
               IF last.nsim > 0
               THEN last.arity = 4 /\ last.sims /\ last.exp
               ELSE last.arity = 2

\* C4: predict_directions on a node of any kind never reaches the base
\* class's NotImplementedError, and what it returns is a 3-tuple.
C4_PredictDirectionsImplemented ==
    last.op = "predict_directions" =>
        /\ last.err # "NotImplementedError"
        /\ last.err = NoErr => last.arity = 3

\* The input nodes from which n is reachable, n itself included.
Inputs(ns, n) ==
    {m \in Ancestors(ns, n) \cup {n} : ns[m].kind = "BasicInput"}

\* C5: the root of every constructed node that is reachable from one input
\* node only is that input node, in every state from the node's
\* construction on.
C5_RootIsTheInput ==
    \A n \in Built(nodes) :
        \A r \in NodeIds(nodes) : Inputs(nodes, n) = {r} => nodes[n].root = r

\* C6: after refresh on a node returns, the node and each of its ancestors
\* hold inducing_points and inducing_points_variance.
C6_RefreshSetsInducingPoints ==
    (last.op = "refresh" /\ last.err = NoErr) =>
        \A m \in Ancestors(nodes, last.node) \cup {last.node} :
            nodes[m].ip /\ nodes[m].ipv

\* The calls C7 is about: the constructor, set_value, set_limits, refresh.
ByParameterCall == plast.op \in {"new", "set_value", "set_limits", "refresh"}

\* C7 as stated: after the constructor and after every set_value,
\* set_limits and refresh of a bounded parameter,
\* min_transformed <= variable <= max_transformed at every entry.
C7_WithinLimits ==
    (ByParameterCall /\ par.kind \in BoundedKinds) =>
        \A i \in Idx :
            par.min[i] <= par.variable[i] /\ par.variable[i] <= par.max[i]

\* C7 as amended: after those calls variable >= min_transformed at every
\* entry, and variable <= max_transformed at every entry whose limits are
\* in order; where min_transformed > max_transformed the variable is
\* min_transformed.
C7_ClampedToLimits ==
    (ByParameterCall /\ par.kind \in BoundedKinds) =>
        \A i \in Idx :
            /\ par.min[i] <= par.variable[i]
            /\ par.min[i] <= par.max[i] => par.variable[i] <= par.max[i]
            /\ par.min[i] > par.max[i] => par.variable[i] = par.min[i]

\* A set_value above the upper limit was clamped to it.
C7_Witness ==
    /\ plast.op = "set_value"
    /\ par.kind \in BoundedKinds
    /\ \E i \in Idx :
           /\ par.min[i] < par.max[i]
           /\ plast.arg[i] > par.max[i]
           /\ par.variable[i] = par.max[i]

\* C8: for every parameter class, a refresh() right after a refresh()
\* leaves the variable as the first one left it.
C8_RefreshIdempotent ==
    [][(plast.op = "refresh" /\ plast'.op = "refresh")
          => par'.variable = par.variable]_vars

\* C9: an Add, Multiply, LinearCombination or ProductOfExperts is built
\* exactly when its parents' sizes are all equal, its constructor raises
\* ValueError otherwise, and a built one has the parents' common size.
C9_ElementwiseSizes ==
    \A n \in NodeIds(nodes) :
        nodes[n].kind \in ElementwiseKinds =>
            LET same == SameSizes(nodes, nodes[n].parents)
            IN /\ nodes[n].built <=> same
               /\ nodes[n].built =>
                      nodes[n].size = nodes[nodes[n].parents[1]].size
               /\ (last.op = "new" /\ last.node = n) =>
                      last.err = IF same THEN NoErr ELSE "ValueError"

\* An elementwise combinator over two parents was built, and the
\* constructor of another one has just raised ValueError.
C9_Witness ==
    /\ last.op = "new"
    /\ last.err = "ValueError"
    /\ nodes[last.node].kind \in ElementwiseKinds
    /\ \E m \in Built(nodes) :
           nodes[m].kind \in ElementwiseKinds /\ Len(nodes[m].parents) = 2

\* C10: an ApplyLinearTrendGP is built exactly when its first parent is a
\* Linear, its second a BasicGP or GPWithGradient and their sizes are
\* equal; otherwise its constructor raises ValueError.
C10_LinearTrendPairing ==
    \A n \in NodeIds(nodes) :
        nodes[n].kind = "ApplyLinearTrendGP" =>
            LET lin == nodes[nodes[n].parents[1]]
                gp == nodes[nodes[n].parents[2]]
                ok == /\ lin.kind = "Linear"
                      /\ gp.kind \in GPKinds
                      /\ lin.size = gp.size
            IN /\ nodes[n].built <=> ok
               /\ (last.op = "new" /\ last.node = n) =>
                      last.err = IF ok THEN NoErr ELSE "ValueError"

\* A Linear and a GP of different sizes were passed, and the constructor
\* raised ValueError.
C10_Witness ==
    /\ last.op = "new"
    /\ last.err = "ValueError"
    /\ nodes[last.node].kind = "ApplyLinearTrendGP"
    /\ nodes[nodes[last.node].parents[1]].kind = "Linear"
    /\ nodes[nodes[last.node].parents[2]].kind \in GPKinds

\* The calls that only read the network.
ReadOnlyCalls == {"predict", "predict_directions", "kl_divergence", "propagate"}

\* C11: a predict, predict_directions, kl_divergence or propagate call
\* leaves every node as it was: the inducing points, the cached GP state,
\* the parent lists and the children lists.
C11_QueriesReadOnly ==
    [][last'.op \in ReadOnlyCalls => nodes' = nodes]_vars

\* predict with samples returned on a refreshed GP node.
C11_Witness ==
    /\ last.op = "predict"
    /\ last.err = NoErr
    /\ last.nsim > 0
    /\ nodes[last.node].kind \in GPKinds
    /\ nodes[last.node].cov

\* The combinators with several parents.
FanOutKinds == OperationKinds \cup {"LatentNetworkOutput"}

\* The sampling calls one invocation of a combinator makes on its parents.
FanOut(c) ==
    /\ c.branch >= 1
    /\ c.nsim > 0
    /\ nodes[c.caller].kind \in FanOutKinds

\* C12: in a predict call with n_sim > 0 that returned, every invocation
\* of a combinator passed different seed pairs to different parents.
C12_DistinctSeedsPerBranch ==
    (last.op = "predict" /\ last.nsim > 0) =>
        \A c1, c2 \in last.calls :
            (/\ FanOut(c1) /\ FanOut(c2)
             /\ c1.caller = c2.caller /\ c1.cseed = c2.cseed
             /\ c1.branch # c2.branch)
                => c1.seed # c2.seed

\* The kinds that draw random numbers from the seed.
SamplingKinds == GPKinds \cup {"CopyGP"}

\* C13: in a predict call that returned, all sampling calls of predict on
\* one sampling node received the same seed pair.
C13_SharedNodeSameSeed ==
    last.op = "predict" =>
        \A c1, c2 \in last.calls :
            (/\ c1.node = c2.node
             /\ nodes[c1.node].kind \in SamplingKinds
             /\ c1.nsim > 0 /\ c2.nsim > 0)
                => c1.seed = c2.seed

\* C14: the weights of LinearCombination (refresh, predict,
\* predict_directions) and of ProductOfExperts (predict, predict_directions)
\* sum to 1 across the parents, for every batch, the batches included where
\* every parent reports zero explained variance.
C14_WeightsSumToOne ==
    mix.op # "new" =>
        /\ mix.den # 0
        /\ SumTo(mix.num, MixParents) = mix.den

\* C15: for a node of any kind, after refresh, predict at the network's own
\* inducing-point coordinates returns the node's inducing_points as mean and
\* its inducing_points_variance as variance.  Tensor values are not modelled:
\* what is stated is that the call returns (mean, variance) and that the node
\* holds the two tensors they are to be equal to.
C15_PredictReproducesInducingPoints ==
    (last.op = "refresh" /\ last.err = NoErr) =>
        /\ \E m \in NSims : Predict(nodes, last.node, m).arity >= 2
        /\ nodes[last.node].ip
        /\ nodes[last.node].ipv

\* C16: get_unique_parents() of a node holds every ancestor of the node
\* exactly once and never the node itself, chains of functional nodes above
\* combinators with shared ancestors included.
C16_UniqueParentsAreTheAncestors ==
    \A n \in Built(nodes) :
        LET l == get_unique_parents(nodes, n)
        IN /\ Range(l) = Ancestors(nodes, n)
           /\ Cardinality(Range(l)) = Len(l)
           /\ n \notin Range(l)

\* A functional node above a combinator two of whose parents share an
\* ancestor, or are the same node.
C16_Witness ==
    \E n \in Built(nodes) :
        /\ nodes[n].kind \in FunctionalKinds
        /\ LET c == nodes[n].parents[1]
           IN /\ nodes[c].kind \in FanOutKinds
              /\ \E i, j \in 1..Len(nodes[c].parents) :
                    /\ i # j
                    /\ LET a == nodes[c].parents[i]
                           b == nodes[c].parents[j]
                       IN (Ancestors(nodes, a) \cup {a})
                             \cap (Ancestors(nodes, b) \cup {b}) # {}

\* C17: propagate is implemented for every concrete kind and returns (mean,
\* variance): neither a propagate call on a node nor the predict of a BasicGP,
\* GPWithGradient or CopyGP built on it ends in the base class's
\* NotImplementedError.
C17_PropagateImplemented ==
    \/ last.op = "propagate"
    \/ /\ last.op = "predict"
       /\ nodes[last.node].kind \in SamplingKinds
    => last.err # "NotImplementedError"

\* The parent list in the other order: Add(b, a) for Add(a, b).
Reverse(s) == [i \in 1..Len(s) |-> s[Len(s) + 1 - i]]

Swapped(ns, n) == [ns EXCEPT ![n].parents = Reverse(@)]

\* The random draws among the calls cs: the sampling node and its seed.
Sampled(ns, cs) ==
    {<<c.node, c.seed>> :
        c \in {d \in cs : ns[d.node].kind \in SamplingKinds /\ d.nsim > 0}}

\* The terms of "sims" that Add.predict on n sums: one per call on a parent,
\* fixed by the parent and by the draws made below that call.
SimTerms(ns, n, cs) ==
    {<<c.node,
       Sampled(ns, SubCalls(ns, n, c.cseed, c.branch, c.node, c.nsim, c.seed))>> :
        c \in {d \in cs : d.caller = n /\ d.branch >= 1}}

\* C18: Add(a, b) and Add(b, a) hold equal inducing points after refresh and
\* return equal predict outputs (mean, variance, samples, explained
\* variance) for the same x, n_sim and seed, and equal predict_directions
\* outputs.  Sums of tensors do not depend on the order; the samples are
\* equal when the same terms are summed, each parent drawing from the same
\* seeds in both orders.
C18_AddCommutes ==
    (/\ last.op = "predict" /\ last.err = NoErr /\ last.nsim > 0
     /\ nodes[last.node].kind = "Add") =>
        LET n == last.node
            sw == Swapped(nodes, n)
            c0 == CHOOSE c \in last.calls : c.caller = None
        IN /\ Refresh(sw, n).err = Refresh(nodes, n).err
           /\ Refresh(sw, n).ns[n].ip = Refresh(nodes, n).ns[n].ip
           /\ Predict(sw, n, last.nsim) = Predict(nodes, n, last.nsim)
           /\ PredictDirections(sw, n) = PredictDirections(nodes, n)
           /\ SimTerms(sw, n, AllCalls(sw, n, c0.nsim, c0.seed))
                 = SimTerms(nodes, n, last.calls)

\* The nodes reached from the set S in at most k steps along parent edges.
RECURSIVE Upward(_, _, _)
Upward(ns, S, k) ==
    IF k = 0 THEN S
    ELSE Upward(ns, S \cup UNION {Range(ns[m].parents) : m \in S}, k - 1)

\* No node is reached from its own parents.
Acyclic(ns) ==
    \A n \in NodeIds(ns) : n \notin Upward(ns, Range(ns[n].parents), Len(ns))

\* C19: whatever constructor, refresh or query runs, the parent relation
\* stays acyclic and the parent list of every object constructed so far
\* stays as it was.
C19_ParentsFixedAndAcyclic ==
    [][/\ \A n \in NodeIds(nodes) : nodes'[n].parents = nodes[n].parents
       /\ Acyclic(nodes')]_vars

\* A full arena with a two-parent combinator, after a refresh or a predict
\* that returned.
C19_Witness ==
    /\ last.op \in {"refresh", "predict"}
    /\ last.err = NoErr
    /\ Len(nodes) = MaxNodes
    /\ \E n \in Built(nodes) :
          /\ Len(nodes[n].parents) = 2
          /\ nodes[n].children # <<>>

\* In the steps ev, every step of the given sorts is preceded by the return
\* of the refresh of each ancestor of the node that takes it.
AfterAncestors(ns, ev, sorts) ==
    \A i \in 1..Len(ev) :
        ev[i][2] \in sorts =>
            \A a \in Ancestors(ns, ev[i][1]) :
                \E j \in 1..(i - 1) : ev[j] = <<a, "return">>

\* C20 as stated: in a refresh call the refresh of every ancestor of a node
\* has returned before the node runs any statement of its own refresh, the
\* reading of its own parameters included.
C20_AncestorsFirst ==
    (last.op = "refresh" /\ last.err = NoErr) =>
        AfterAncestors(nodes, last.events, {"parameters", "body"})

\* C20 as the code has it: the refresh of every ancestor has returned before
\* the node reads an inducing point of a parent or assigns its own refresh
\* state; Linear, Exponentiation and Bias read their own parameters first.
C20_AncestorsBeforeBody ==
    (last.op = "refresh" /\ last.err = NoErr) =>
        AfterAncestors(nodes, last.events, {"body"})

\* A refresh that returned on a node that reads its parameters first and
\* has an ancestor two levels up.
C20_Witness ==
    /\ last.op = "refresh"
    /\ last.err = NoErr
    /\ nodes[last.node].kind \in ReadFirstKinds
    /\ Cardinality(Ancestors(nodes, last.node)) >= 2
    /\ <<last.node, "body">> \in Range(last.events)

\* C26: when a combinator's constructor fails validation (Add, Multiply,
\* LinearCombination, ProductOfExperts, ApplyLinearTrendGP raising
\* ValueError), the rejected object is in no would-be parent's children list.
C26_RejectedLeavesNoTrace ==
    (/\ last.op = "new" /\ last.err = "ValueError"
     /\ nodes[last.node].kind \in ElementwiseKinds \cup {"ApplyLinearTrendGP"}) =>
        \A p \in NodeIds(nodes) : last.node \notin Range(nodes[p].children)

\* A combinator one of whose parents is a combinator.
Nested(ns, n) ==
    /\ ns[n].kind \in FanOutKinds
    /\ \E i \in 1..Len(ns[n].parents) : ns[ns[n].parents[i]].kind \in FanOutKinds

\* C27: in a predict call with n_sim > 0 on a root built from nested
\* combinators, two different sampling GP nodes never receive the same seed
\* pair.
C27_DistinctNodesDistinctSeeds ==
    (/\ last.op = "predict" /\ last.err = NoErr /\ last.nsim > 0
     /\ Nested(nodes, last.node)) =>
        \A c1, c2 \in last.calls :
            (/\ c1.node # c2.node
             /\ nodes[c1.node].kind \in SamplingKinds
             /\ nodes[c2.node].kind \in SamplingKinds
             /\ c1.nsim > 0 /\ c2.nsim > 0)
                => c1.seed # c2.seed

\* C24: a GPGradient node on a GP node has size parent.size * root.size; its
\* refresh completes and stores the inducing points, and its predict
\* completes and returns (mean, variance), whenever the parent's own refresh
\* and predict_directions complete.
C24_GradientCompletes ==
    \A n \in Built(nodes) :
        (nodes[n].kind = "GPGradient"
            /\ nodes[nodes[n].parents[1]].kind \in GPKinds) =>
            LET p == nodes[n].parents[1]
            IN /\ nodes[n].size = nodes[p].size * nodes[nodes[n].root].size
               /\ (/\ last.op = "refresh" /\ last.node = n
                   /\ Refresh(nodes, p).err = NoErr)
                      => (last.err = NoErr /\ nodes[n].ip /\ nodes[n].ipv)
               /\ (/\ last.op = "predict" /\ last.node = n
                   /\ PredictDirections(nodes, p).err = NoErr)
                      => (last.err = NoErr /\ last.arity = 2)

\* C30: for a GPWithGradient node over any parent, the side of the block
\* covariance built in refresh equals the length of alpha_white and of the
\* noise drawn in predict, so that its refresh does not fail on the shapes.
C30_GradientBlockDimensions ==
    \A n \in Built(nodes) :
        nodes[n].kind = "GPWithGradient" =>
            /\ BlockDim(nodes, n) = AlphaLen(nodes, n)
            /\ (last.op = "refresh" /\ last.node = n)
                  => last.err # "InvalidArgumentError"

\* C22: BasicInput.propagate(x, x_var) returns the transformed coordinates
\* as mean; the variance is zero when x_var is not given, and carries x_var
\* when it is given (with the Identity transform: it is x_var).
C22_PropagateCarriesVariance ==
    (calc.fn = "BasicInput.propagate" /\ calc.op = "propagate") =>
        /\ calc.mean = calc.x - calc.center
        /\ calc.var = IF calc.given THEN calc.x_var ELSE 0

C25_CopyIgnoresTeacherChanges ==
    calc.fn = "CopyGP" =>
        /\ calc.op \in {"refresh", "predict", "predict_directions"} =>
              calc.out = CopyGP_output(CopyGP_frozen(calc.built), calc.built)
        /\ calc.op = "kl_divergence" => calc.kl = 0

\* The parameter objects owned by the nodes of a set.
OwnedBy(ns, S) == UNION {Range(AddParameters(ns, m)) : m \in S}

\* C28: all_parameters of a node holds every parameter owned by the node or
\* by one of its ancestors, and holds each of them exactly once.
C28_AllParametersOnceEach ==
    \A n \in Built(nodes) :
        LET ap == all_parameters(nodes, n)
        IN /\ Range(ap) = OwnedBy(nodes, {n} \cup Ancestors(nodes, n))
           /\ \A i, j \in DOMAIN ap : ap[i] = ap[j] => i = j

\* refresh() called k times on parameter p.
RECURSIVE RefreshedTimes(_, _)
RefreshedTimes(p, k) == IF k = 0 THEN p ELSE ParRefresh(RefreshedTimes(p, k - 1))

\* Parameter i holds what one or more calls of refresh made of the value
\* last written to it.
Refreshed(o, i) ==
    \E k \in 1..MaxRefresh :
        o.ps[i].variable =
            RefreshedTimes([o.ps[i] EXCEPT !.variable = o.raw[i]], k).variable

\* C21: whenever the network may read the parameters next (a training loop
\* is about to evaluate the ELBO, or no loop and no update is running),
\* every parameter written from outside has been refreshed since the write.
C21_RefreshedBeforeRead ==
    parametric.op # "none" /\ parametric.pc \in {"idle", "minimize"} =>
        \A i \in Range(parametric.all) :
            parametric.raw[i] # <<>> => Refreshed(parametric, i)

\* A training loop is about to evaluate the ELBO again after a step whose
\* write refresh had to correct.
C21_Witness ==
    /\ parametric.op = "refresh"
    /\ parametric.pc = "minimize"
    /\ parametric.loop = "train_svi_experts"
    /\ \E i \in Range(parametric.all) :
          parametric.raw[i] # <<>> /\ parametric.raw[i] # parametric.ps[i].variable

\* C29: update_parameters applied to what get_parameter_values just
\* returned leaves every stored value as it was.
C29_RoundTripKeepsValues ==
    [][(parametric.op = "get_parameter_values"
            /\ parametric'.op = "update_parameters(got)") => parametric'.ps = parametric.ps]_vars

====
